---- MODULE Spec2Model ----
(***************************************************************************)
(* Model of src/markov.py: class MarkovChainGenerator (train / generate)    *)
(* together with the process-wide random source it draws from.             *)
(*                                                                         *)
(* A text is a sequence of characters, a token a non-empty sequence of     *)
(* non-space characters, a context (key) a sequence of tokens.  A Python   *)
(* dict is an insertion-ordered sequence of entries [k |-> key, v |-> val].*)
(* An optional value is None == <<>> or Some(x) == <<x>>.                  *)
(***************************************************************************)
EXTENDS Integers, Sequences, FiniteSets, TLC

\* ------------------------------------------------------------------ bounds
MaxWords     == 4    \* words in a training text
MaxChainSize == 2    \* chain_size passed to train ranges over 1..MaxChainSize
MaxLength    == 4    \* length passed to generate ranges over 1..MaxLength
MaxSeed      == 0    \* seed passed to generate is None or in 0..MaxSeed
RngMod       == 3    \* number of states of the abstract random source

Modes  == {"uniform", "probabilistic"}

None    == <<>>
Some(x) == <<x>>

\* the string returned by generate on an untrained model (line 77); one
\* symbol that no training text contains stands for the whole message
NOT_TRAINED_MSG == <<"Obuchite model' pered generatsiej!">>

Max(a, b) == IF a >= b THEN a ELSE b

\* ------------------------------------------------------- str.split / join
RECURSIVE SplitRec(_, _, _)
SplitRec(text, cur, acc) ==
    IF text = <<>>
    THEN IF cur = <<>> THEN acc ELSE Append(acc, cur)
    ELSE IF Head(text) = " "
         THEN SplitRec(Tail(text), <<>>, IF cur = <<>> THEN acc ELSE Append(acc, cur))
         ELSE SplitRec(Tail(text), Append(cur, Head(text)), acc)

\* text.split(): maximal runs of non-whitespace characters, in order
Split(text) == SplitRec(text, <<>>, <<>>)

\* ' '.join(tokens)
RECURSIVE Join(_)
Join(tokens) ==
    IF tokens = <<>> THEN <<>>
    ELSE IF Len(tokens) = 1 THEN tokens[1]
    ELSE tokens[1] \o <<" ">> \o Join(Tail(tokens))

\* ------------------------------------------------------------ dict helpers
DictHas(d, k)   == \E i \in 1..Len(d) : d[i].k = k
DictIndex(d, k) == CHOOSE i \in 1..Len(d) : d[i].k = k
DictKeys(d)     == [i \in 1..Len(d) |-> d[i].k]
DictItem(d, k)  == d[DictIndex(d, k)].v

\* an append that keeps each word once per key (set semantics)
DictAppendDistinct(d, k, w) ==
    IF DictHas(d, k)
    THEN IF \E j \in 1..Len(DictItem(d, k)) : DictItem(d, k)[j] = w
         THEN d
         ELSE [d EXCEPT ![DictIndex(d, k)].v = Append(@, w)]
    ELSE Append(d, [k |-> k, v |-> <<w>>])

\* defaultdict(list)[key].append(w)
DictAppend(d, k, w) ==
    IF DictHas(d, k)
    THEN [d EXCEPT ![DictIndex(d, k)].v = Append(@, w)]
    ELSE Append(d, [k |-> k, v |-> <<w>>])

\* defaultdict(int)[w] += 1
CountIncr(c, w) ==
    IF DictHas(c, w)
    THEN [c EXCEPT ![DictIndex(c, w)].v = @ + 1]
    ELSE Append(c, [k |-> w, v |-> 1])

\* freq_chain[key][w] += 1
FreqIncr(f, k, w) ==
    IF DictHas(f, k)
    THEN [f EXCEPT ![DictIndex(f, k)].v = CountIncr(@, w)]
    ELSE Append(f, [k |-> k, v |-> CountIncr(<<>>, w)])

\* ------------------------------------------------------------------ train
\* a loop that stops one window early
WindowCountShort(words, N) == Max(0, Len(words) - N - 1)

\* number of iterations of: for i in range(len(words) - chain_size)
WindowCount(words, N) == Max(0, Len(words) - N)

\* an earlier table kept and extended
InitialTableMerged(prev) == IF prev = None THEN <<>> ELSE prev[1]

\* collections.defaultdict(list) at line 36: empty, whatever self.chain held
InitialTable(prev) == <<>>

\* collections.defaultdict(lambda: defaultdict(int)) at line 44: empty
InitialFreq(prev) == <<>>

\* uniform branch: iterations i .. n-1 of the loop at lines 37-40 (i 0-based)
RECURSIVE BuildUniform(_, _, _, _, _)
BuildUniform(d, words, N, i, n) ==
    IF i >= n THEN d
    ELSE BuildUniform(DictAppend(d, SubSeq(words, i + 1, i + N), words[i + N + 1]),
                      words, N, i + 1, n)

\* probabilistic branch: iterations i .. n-1 of the loop at lines 45-48
RECURSIVE BuildFreq(_, _, _, _, _)
BuildFreq(f, words, N, i, n) ==
    IF i >= n THEN f
    ELSE BuildFreq(FreqIncr(f, SubSeq(words, i + 1, i + N), words[i + N + 1]),
                   words, N, i + 1, n)

\* a word listed once whatever its count
RepeatOnce(w, count) == <<w>>

\* [word] * count
Repeat(w, count) == [j \in 1..count |-> w]

\* lines 54-56: the words of word_counts, each repeated count times
RECURSIVE WeightedList(_)
WeightedList(wc) ==
    IF wc = <<>> THEN <<>>
    ELSE Repeat(wc[1].k, wc[1].v) \o WeightedList(Tail(wc))

\* lines 51-57: self.chain[key] = weighted_list for every key of freq_chain
ExpandFreq(f) == [i \in 1..Len(f) |-> [k |-> f[i].k, v |-> WeightedList(f[i].v)]]

\* the table train(text, N) stores in self.chain (lines 31-60)
TrainChain(m, prev, text, N) ==
    LET words == Split(text)
        n     == WindowCount(words, N)
    IN  IF m = "uniform"
        THEN BuildUniform(InitialTable(prev), words, N, 0, n)
        ELSE ExpandFreq(BuildFreq(InitialFreq(prev), words, N, 0, n))

\* --------------------------------------------------------- random source
\* random.seed(s): the state a seed selects
SeedState(s) == s % RngMod

\* a call that ignores the seed it is given
ReseedIgnored(r, s) == r

\* lines 73-74: reseed only when a seed is supplied
Reseed(r, s) == IF s # None THEN SeedState(s[1]) ELSE r

\* the index random.choice draws for a sequence of n elements in state r
RandBelow(r, n) == r % n

\* the state of the random source after one draw
NextRng(r) == (r + 1) % RngMod

\* random.choice(seq) in state r, for a non-empty seq
Choice(seq, r) == seq[RandBelow(r, Len(seq)) + 1]

\* --------------------------------------------------------------- set order
CharCode(c) == IF c = "a" THEN 1 ELSE 2

\* an injective code of a token; it stands for the token's hash
RECURSIVE TokenCode(_)
TokenCode(t) == IF t = <<>> THEN 0 ELSE 3 * TokenCode(SubSeq(t, 1, Len(t) - 1)) + CharCode(t[Len(t)])

RECURSIVE SetToSeq(_, _)
SetToSeq(S, flip) ==
    IF S = {} THEN <<>>
    ELSE LET x == CHOOSE y \in S : \A z \in S :
                      IF flip THEN TokenCode(y) >= TokenCode(z)
                              ELSE TokenCode(y) <= TokenCode(z)
         IN  <<x>> \o SetToSeq(S \ {x}, flip)

Range(seq) == { seq[i] : i \in 1..Len(seq) }

\* list(set(vals)): the distinct elements, in the order the process's string
\* hashing gives them (one of two orders, fixed for the whole run)
ListSet(vals, flip) == SetToSeq(Range(vals), flip)

\* --------------------------------------------------------------- generate
\* a test that only recognises a model that was never trained
NotChainNoneOnly(ch) == ch = None

\* line 76: not self.chain  (None or an empty dict)
NotChain(ch) == ch = None \/ ch[1] = <<>>

\* a loop that runs length times
LoopCountLength(len, N) == len

\* number of iterations of: for _ in range(length - self.chain_size)
LoopCount(len, N) == Max(0, len - N)

\* a lookup that creates the missing entry, as indexing a defaultdict does
DictGetCreating(d, k) ==
    [val |-> IF DictHas(d, k) THEN Some(DictItem(d, k)) ELSE Some(<<>>),
     tbl |-> IF DictHas(d, k) THEN d ELSE Append(d, [k |-> k, v |-> <<>>])]

\* line 85: self.chain.get(tuple(key)): the value or None, and the dict after
DictGet(d, k) ==
    [val |-> IF DictHas(d, k) THEN Some(DictItem(d, k)) ELSE None,
     tbl |-> d]

\* line 86: not possible_next_words  (None or an empty list)
NoNextWords(p) == p = None \/ p[1] = <<>>

\* sampling from the stored list in every mode
CandidatesStored(m, vals, flip) == vals

\* lines 90-96: the sequence random.choice is applied to (the stored value
\* is always a list, so the isinstance test of line 90 is always true)
Candidates(m, vals, flip) == IF m = "uniform" THEN ListSet(vals, flip) ELSE vals

\* a window that is never advanced
AdvanceKeyStale(k, w) == k

\* line 99: key = key[1:] + [next_word]
AdvanceKey(k, w) == Tail(k) \o <<w>>

\* ------------------------------------------------------------------ state
VARIABLES
    mode,        \* self.mode
    chain,       \* self.chain: None or Some(dict)
    chain_size,  \* self.chain_size: None or Some(N)
    rng,         \* state of the module-level random source
    hashFlip,    \* which iteration order this process gives to sets of strings
    pc,          \* "idle": no call running; "loop": generate at line 84;
                 \* "return": generate has its return value; "raise": it raised
    key,         \* generate's local key
    result,      \* generate's local result
    remaining,   \* iterations the for loop of generate still has to run
    length,      \* argument length of the running generate call
    seed,        \* argument seed of the running generate call (None or Some)
    ret,         \* the value generate returns (Some), None outside "return"
    exc,         \* the exception the call raises, "none" outside "raise"
    stopped,     \* the running generate call left its loop by break
    text,        \* argument of the last train call
    ctx,         \* context looked up by the call's last sampling step
    cand,        \* sequence random.choice was applied to in that step
    ref,         \* a seeded generate call since the last train an observer kept
    replaced     \* the last call was a train that found another, non-empty table

vars == <<mode, chain, chain_size, rng, hashFlip, pc, key, result, remaining,
          length, seed, ret, exc, stopped, text, ctx, cand, ref, replaced>>

\* ----------------------------------------------------------------- inputs
Tokens == { <<"a">>, <<"b", "a">> }

WordSeqs == UNION { [1..n -> Tokens] : n \in 0..MaxWords }

RECURSIVE JoinWide(_)
JoinWide(tokens) ==
    IF tokens = <<>> THEN <<>>
    ELSE IF Len(tokens) = 1 THEN tokens[1]
    ELSE tokens[1] \o <<" ", " ">> \o JoinWide(Tail(tokens))

\* a training text: the words separated by single spaces; the short texts
\* (at most MaxChainSize words) also with double spaces between the words and
\* a leading and a trailing space
Texts == { Join(ws) : ws \in WordSeqs } \cup
         { <<" ">> \o JoinWide(ws) \o <<" ">> :
               ws \in { w \in WordSeqs : Len(w) <= MaxChainSize } }

Seeds   == {None} \cup { Some(s) : s \in 0..MaxSeed }
Lengths == 1..MaxLength
Sizes   == 1..MaxChainSize

\* lines 10-21, in a process whose random source and string hashing are
\* seeded by the operating system (a probabilistic model never builds a set,
\* so one hash order stands for both there)
Init ==
    /\ mode \in Modes
    /\ chain = None
    /\ chain_size = None
    /\ rng \in 0..(RngMod - 1)
    /\ hashFlip \in (IF mode = "uniform" THEN BOOLEAN ELSE {FALSE})
    /\ pc = "idle"
    /\ key = <<>>
    /\ result = <<>>
    /\ remaining = 0
    /\ length = 0
    /\ seed = None
    /\ ret = None
    /\ exc = "none"
    /\ stopped = FALSE
    /\ text = <<>>
    /\ ctx = None
    /\ cand = <<>>
    /\ ref = None
    /\ replaced = FALSE

\* train(text, chain_size), lines 31-60
Train(t, N) ==
    /\ pc = "idle"
    /\ chain_size' = Some(N)
    /\ chain' = Some(TrainChain(mode, chain, t, N))
    /\ text' = t
    /\ ref' = None
    /\ replaced' = (~NotChain(chain) /\ chain' # chain)
    /\ UNCHANGED <<mode, rng, hashFlip, pc, key, result, remaining, length, seed,
                   ret, exc, stopped, ctx, cand>>

\* once a seeded call is remembered in ref, between tells that a call with
\* another seed or length has returned since
Remember(out, l, s) ==
    IF ref = None \/ (s = Some(ref[1].seed) /\ l = ref[1].length)
    THEN ref
    ELSE Some([ref[1] EXCEPT !.between = TRUE])

\* generate(length, seed), lines 73-82: up to the for loop
GenerateStart(l, s) ==
    /\ pc = "idle"
    /\ length' = l
    /\ seed' = s
    /\ LET r1 == Reseed(rng, s) IN
       IF NotChain(chain)
       THEN \* line 77
            /\ rng' = r1
            /\ pc' = "return"
            /\ ret' = Some(NOT_TRAINED_MSG)
            /\ ref' = Remember(NOT_TRAINED_MSG, l, s)
            /\ UNCHANGED <<key, result, remaining, exc>>
       ELSE IF chain[1] = <<>>
       THEN \* random.choice of an empty list raises IndexError
            /\ rng' = r1
            /\ pc' = "raise"
            /\ exc' = "IndexError"
            /\ UNCHANGED <<key, result, remaining, ret, ref>>
       ELSE LET start_key == Choice(DictKeys(chain[1]), r1) IN
            /\ rng' = NextRng(r1)
            /\ key' = start_key
            /\ result' = start_key
            /\ remaining' = LoopCount(l, chain_size[1])
            /\ pc' = "loop"
            /\ UNCHANGED <<ret, exc, ref>>
    /\ replaced' = FALSE
    /\ UNCHANGED <<mode, chain, chain_size, hashFlip, text, stopped, ctx, cand>>

\* one iteration of the for loop, lines 84-99; on break, line 101 as well
GenerateStep ==
    /\ pc = "loop"
    /\ remaining > 0
    /\ LET got == DictGet(chain[1], key) IN
       /\ chain' = Some(got.tbl)
       /\ IF NoNextWords(got.val)
          THEN /\ pc' = "return"
               /\ stopped' = TRUE
               /\ ret' = Some(Join(result))
               /\ ref' = Remember(Join(result), length, seed)
               /\ UNCHANGED <<rng, key, result, remaining, ctx, cand>>
          ELSE LET c == Candidates(mode, got.val[1], hashFlip)
                   next_word == Choice(c, rng)
               IN  /\ rng' = NextRng(rng)
                   /\ ctx' = Some(key)
                   /\ cand' = c
                   /\ result' = Append(result, next_word)
                   /\ key' = AdvanceKey(key, next_word)
                   /\ remaining' = remaining - 1
                   /\ UNCHANGED <<pc, ret, stopped, ref>>
    /\ UNCHANGED <<mode, chain_size, hashFlip, length, seed, text, exc, replaced>>

\* the for loop is exhausted: line 101
GenerateReturn ==
    /\ pc = "loop"
    /\ remaining = 0
    /\ pc' = "return"
    /\ ret' = Some(Join(result))
    /\ ref' = Remember(Join(result), length, seed)
    /\ UNCHANGED <<mode, chain, chain_size, rng, hashFlip, key, result, remaining,
                   length, seed, exc, stopped, text, ctx, cand, replaced>>

\* the call is over: its frame is gone and the caller has the value (or the
\* exception)
CallEnd ==
    /\ pc \in {"return", "raise"}
    /\ pc' = "idle"
    /\ key' = <<>>
    /\ result' = <<>>
    /\ remaining' = 0
    /\ length' = 0
    /\ seed' = None
    /\ ret' = None
    /\ exc' = "none"
    /\ stopped' = FALSE
    /\ ctx' = None
    /\ cand' = <<>>
    /\ UNCHANGED <<mode, chain, chain_size, rng, hashFlip, text, ref, replaced>>

\* an observer keeps the value a seeded call is returning, to compare later
\* calls with the same seed and length against it
Observe ==
    /\ pc = "return"
    /\ seed # None
    /\ ref = None
    /\ ref' = Some([seed |-> seed[1], length |-> length, out |-> ret[1],
                    between |-> FALSE])
    /\ UNCHANGED <<mode, chain, chain_size, rng, hashFlip, pc, key, result,
                   remaining, length, seed, ret, exc, stopped, text, ctx, cand,
                   replaced>>

Next ==
    \/ \E t \in Texts, N \in Sizes : Train(t, N)
    \/ \E l \in Lengths, s \in Seeds : GenerateStart(l, s)
    \/ GenerateStep
    \/ GenerateReturn
    \/ CallEnd

Spec == Init /\ [][Next]_vars

\* the program with the observer of seeded calls
NextSeeded == Next \/ Observe

SpecSeeded == Init /\ [][NextSeeded]_vars

\* ------------------------------------------------------ derived quantities
Words     == Split(text)                      \* tokens of the last training text
N         == chain_size[1]                    \* stored context length
Table     == chain[1]                         \* the stored dict
Trained   == chain # None
NonEmptyTable == chain # None /\ chain[1] # <<>>
KeySet    == { Table[j].k : j \in 1..Len(Table) }
Positions == 0..(Len(Words) - N - 1)          \* windows with a following token
Window(i) == SubSeq(Words, i + 1, i + N)
Follows(c) == { i \in Positions : Window(i) = c }
Occ(c, w) == Cardinality({ i \in Follows(c) : Words[i + N + 1] = w })
Mult(l, w) == Cardinality({ j \in 1..Len(l) : l[j] = w })
NoDup(l)  == \A i, j \in 1..Len(l) : l[i] = l[j] => i = j
LastN(l)  == SubSeq(l, Len(l) - N + 1, Len(l))

RECURSIVE TotalSize(_)
TotalSize(d) == IF d = <<>> THEN 0 ELSE Len(d[1].v) + TotalSize(Tail(d))

\* ------------------------------------------------------------------ claims

\* C1: after train (either mode) the keys are exactly the N-token windows of
\* the text that have a following token, each key is stored once with a
\* non-empty collection, and the distinct stored successors of a key are
\* exactly the tokens that follow an occurrence of it.
C1_TableExact ==
    Trained =>
        /\ KeySet = { Window(i) : i \in Positions }
        /\ Cardinality(KeySet) = Len(Table)
        /\ \A j \in 1..Len(Table) :
              /\ Table[j].v # <<>>
              /\ Range(Table[j].v) = { Words[i + N + 1] : i \in Follows(Table[j].k) }

C1_Witness ==
    /\ Trained
    /\ Len(Words) > N
    /\ LastN(Words) \notin KeySet
    /\ \E j \in 1..Len(Table) : Cardinality(Range(Table[j].v)) >= 2

\* C2: in probabilistic mode a token is stored for a key as many times as it
\* follows that key in the text, and the sizes of all stored collections sum
\* to max(0, len(words) - N).
C2_ProbMultiplicity ==
    (Trained /\ mode = "probabilistic") =>
        /\ \A j \in 1..Len(Table) : \A w \in Range(Words) :
              Mult(Table[j].v, w) = Occ(Table[j].k, w)
        /\ TotalSize(Table) = Max(0, Len(Words) - N)

C2_Witness ==
    /\ Trained
    /\ mode = "probabilistic"
    /\ \E j \in 1..Len(Table) : \E w \in Range(Words) :
          /\ Mult(Table[j].v, w) >= 2
          /\ Cardinality(Range(Table[j].v)) >= 2

\* C3 as stated: in uniform mode no token appears more than once in a stored
\* successor collection.
C3_UniformStoredIsSet ==
    (Trained /\ mode = "uniform") => \A j \in 1..Len(Table) : NoDup(Table[j].v)

\* C3 amended: in uniform mode the stored collection is a list with one entry
\* per occurrence of the (context, successor) pair in the text; duplicates
\* are collapsed only when generate samples: the candidates of a sampling
\* step contain no token twice.
C3_UniformStoredPerOccurrence ==
    (Trained /\ mode = "uniform") =>
        /\ \A j \in 1..Len(Table) : \A w \in Range(Words) :
              Mult(Table[j].v, w) = Occ(Table[j].k, w)
        /\ ctx # None => NoDup(cand)

C3_Witness ==
    /\ Trained
    /\ mode = "uniform"
    /\ ctx # None
    /\ ~NoDup(DictItem(Table, ctx[1]))
    /\ Len(cand) = 1

\* C4: with fewer than N+1 tokens train leaves an empty table and raises
\* nothing, and generate on such a model, or on one never trained, returns
\* the "model not trained" message whatever its length and seed.
C4_DegenerateUntrained ==
    (chain = None \/ Len(Words) < N + 1) =>
        /\ Trained => Table = <<>>
        /\ pc \in {"idle", "return"}
        /\ exc = "none"
        /\ pc = "return" => ret = Some(NOT_TRAINED_MSG)

C4_Witness ==
    /\ Trained
    /\ Len(Words) > 0
    /\ Len(Words) < N + 1
    /\ seed # None
    /\ pc = "return"
    /\ ret = Some(NOT_TRAINED_MSG)

\* C5: on a non-empty table and with length >= N, generate returns the tokens
\* it emitted, between N and length of them: exactly length unless the loop
\* stopped at a trailing window that is not a key, and then fewer.
C5_GenerateLength ==
    (pc = "return" /\ NonEmptyTable /\ length >= N) =>
        LET out == Split(ret[1]) IN
        /\ out = result
        /\ Len(out) >= N
        /\ Len(out) <= length
        /\ stopped => (Len(out) < length /\ LastN(result) \notin KeySet)
        /\ ~stopped => Len(out) = length

C5_Witness ==
    /\ pc = "return"
    /\ NonEmptyTable
    /\ length >= N
    /\ stopped
    /\ Len(result) > N

\* C6: whatever was trained or generated before, after train(text, N) the
\* table is the one a fresh model of the same mode gets from train(text, N),
\* and every key has the stored context length.
C6_TrainReplaces ==
    Trained =>
        /\ chain = Some(TrainChain(mode, None, text, N))
        /\ \A j \in 1..Len(Table) : Len(Table[j].k) = N

C6_Witness ==
    /\ replaced
    /\ Table # <<>>
    /\ pc = "idle"

\* C7: a seeded generate call returns what the first call with the same seed
\* and length returned on this trained model, whatever calls ran in between.
C7_SeedDeterminism ==
    (/\ pc = "return"
     /\ seed # None
     /\ ref # None
     /\ seed = Some(ref[1].seed)
     /\ length = ref[1].length) => ret = Some(ref[1].out)

C7_Witness ==
    /\ pc = "return"
    /\ seed # None
    /\ ref # None
    /\ seed = Some(ref[1].seed)
    /\ length = ref[1].length
    /\ ref[1].between
    /\ NonEmptyTable
    /\ Len(Table) >= 2
    /\ Len(result) > N

\* C8: no step of a generate call changes the table, the stored context
\* length or the mode.
C8_GenerateReadOnly ==
    [][(pc # "idle" \/ pc' # "idle") => UNCHANGED <<mode, chain, chain_size>>]_vars

C8_Witness ==
    /\ pc = "return"
    /\ stopped
    /\ LastN(result) \notin KeySet

\* C9: a sampling step picks among the distinct successors of its context,
\* each once, in uniform mode, and among the stored multiset (a token as
\* often as it follows the context) in probabilistic mode; the token it
\* appends is one of these candidates.
C9_Candidates ==
    (pc \in {"loop", "return"} /\ ctx # None) =>
        /\ Range(cand) = { Words[i + N + 1] : i \in Follows(ctx[1]) }
        /\ mode = "uniform" => NoDup(cand)
        /\ mode = "probabilistic" =>
              /\ Len(cand) = Cardinality(Follows(ctx[1]))
              /\ \A w \in Range(Words) : Mult(cand, w) = Occ(ctx[1], w)
        /\ result[Len(result)] \in Range(cand)

C9_Witness ==
    /\ pc \in {"loop", "return"}
    /\ ctx # None
    /\ mode = "uniform"
    /\ Len(cand) = 2
    /\ Len(DictItem(Table, ctx[1])) >= 3

\* C10: during a generation on a non-empty table the output starts with a
\* key, every later token is a stored successor of the N tokens before it,
\* every N+1 consecutive output tokens occur consecutively in the text, and
\* the lookup window is the last N emitted tokens.
C10_WalkConsistency ==
    (pc \in {"loop", "return"} /\ NonEmptyTable) =>
        /\ Len(result) >= N
        /\ SubSeq(result, 1, N) \in KeySet
        /\ key = LastN(result)
        /\ \A j \in (N + 1)..Len(result) :
              /\ SubSeq(result, j - N, j - 1) \in KeySet
              /\ result[j] \in Range(DictItem(Table, SubSeq(result, j - N, j - 1)))
              /\ \E i \in Positions : SubSeq(Words, i + 1, i + N + 1) = SubSeq(result, j - N, j)

C10_Witness ==
    /\ pc = "loop"
    /\ NonEmptyTable
    /\ Len(result) >= N + 2
====
